---- MODULE Spec2Model ----
(***************************************************************************)
(* Request / response / retry / pagination engine of the ThreatExchange   *)
(* client (client/base.py, client/models.py, client/exceptions.py).       *)
(*                                                                         *)
(* Encoding of Python values:                                              *)
(*   None / absent      <<>>            Some(v)   <<v>>                     *)
(*   str (inspected)    tuple of one-character strings                      *)
(*   dict               function from key strings to values                *)
(*   scalar parameter   [s |-> v]       list parameter   [l |-> <<..>>]     *)
(***************************************************************************)
EXTENDS Integers, Sequences, FiniteSets, TLC

VARIABLES
    cfg,        \* BaseClient attributes set by __init__
    server,     \* the remote service the session talks to
    pc,         \* position of the current logical call
    req,        \* arguments of the running _request/_handle_response frame
    wire,       \* the HTTP request last handed to the session
    resp,       \* the HTTP response last received
    attempts,   \* HTTP requests sent by the current logical call
    sleeps,     \* time.sleep calls made by the current logical call
    slept,      \* duration passed to the last time.sleep
    outcome,    \* how the current logical call ended
    caller,     \* who started the current logical call
    gen,        \* the generator object returned by _paginate
    yielded,    \* items the generator has handed to its consumer
    fetches,    \* _get calls made by the generator
    parseArgs,  \* arguments of a direct PaginatedResponse.from_dict call
    parsed,     \* what that call produced
    upload,     \* arguments of the running _upload_file call
    totalSleeps,\* time.sleep calls made since the traversal or call began
    consumer,   \* the code iterating the generator: next() calls, abandonment
    ctx,        \* the with block the client is used in, and its session
    other       \* a second traversal of the same client, suspended at a yield

vars == <<cfg, server, pc, req, wire, resp, attempts, sleeps, slept, outcome,
          caller, gen, yielded, fetches, parseArgs, parsed, upload,
          totalSleeps, consumer, ctx, other>>

None == <<>>
Some(v) == <<v>>
IsNone(o) == o = <<>>
Val(o) == o[1]

\* A scalar parameter value (a list value is [l |-> <<...>>]).
Scalar(v) == [s |-> v]

\* A history counter going up by one; it is not counted beyond max.
Counted(n, max) == IF n < max THEN n + 1 ELSE n

----------------------------------------------------------------------------
(* Bounds of the model *)

\* Largest non-default max_retries a client is constructed with.
MaxRetries == 1
\* Most pages the service chains together.
MaxPages == 2
\* Most items on one page.
MaxPageLen == 2
\* Largest limit a caller passes to _paginate.
MaxLimit == 2
\* Most fetches of one traversal that are counted: a traversal of a service
\* that never stops sending a continuation goes on fetching, and the counters
\* that record its history stay at their bound.
MaxFetches == 3

(* Program constants *)

\* BaseClient.__init__: max_retries default
DefaultMaxRetries == 3
\* BaseClient._get_retry_after: fallback wait
DefaultRetryAfter == 60
\* BaseClient.DEFAULT_LIMIT
DEFAULT_LIMIT == 500

BASE_URL == "https://graph.facebook.com"
DEFAULT_VERSION == "v19.0"

----------------------------------------------------------------------------
(* Strings whose characters the code inspects *)

UpperChars == <<"A","B","C","D","E","F","G","H","I","J","K","L","M",
                "N","O","P","Q","R","S","T","U","V","W","X","Y","Z">>
LowerChars == <<"a","b","c","d","e","f","g","h","i","j","k","l","m",
                "n","o","p","q","r","s","t","u","v","w","x","y","z">>

\* str.lower() on one character
LowerChar(c) ==
    IF \E i \in 1..Len(UpperChars) : UpperChars[i] = c
    THEN LowerChars[CHOOSE i \in 1..Len(UpperChars) : UpperChars[i] = c]
    ELSE c

\* str.lower()
Lower(s) == [i \in 1..Len(s) |-> LowerChar(s[i])]

\* needle in hay
Contains(hay, needle) ==
    \E i \in 0..(Len(hay) - Len(needle)) :
        \A j \in 1..Len(needle) : hay[i + j] = needle[j]

RateLimitText == <<"r","a","t","e"," ","l","i","m","i","t">>
UnknownError == <<"U","n","k","n","o","w","n"," ","e","r","r","o","r">>

Digits == <<"0","1","2","3","4","5","6","7","8","9">>
IsDigit(c) == \E i \in 1..Len(Digits) : Digits[i] = c
DigitVal(c) == (CHOOSE i \in 1..Len(Digits) : Digits[i] = c) - 1

RECURSIVE DigitsVal(_)
DigitsVal(s) ==
    IF Len(s) = 0 THEN 0
    ELSE 10 * DigitsVal(SubSeq(s, 1, Len(s) - 1)) + DigitVal(s[Len(s)])

\* int(text): Some(n), or None where int() raises ValueError
ParseInt(s) ==
    LET signed == Len(s) > 0 /\ s[1] \in {"-", "+"}
        digits == IF signed THEN Tail(s) ELSE s
    IN  IF Len(digits) > 0 /\ \A i \in 1..Len(digits) : IsDigit(digits[i])
        THEN Some(IF signed /\ s[1] = "-" THEN 0 - DigitsVal(digits)
                  ELSE DigitsVal(digits))
        ELSE None

----------------------------------------------------------------------------
(* Error classification: BaseClient._handle_response, the "error" branch *)

\* error.get("code", 0)
ErrorCode(error) == IF IsNone(error.code) THEN 0 ELSE Val(error.code)

\* error.get("message", "Unknown error")
ErrorMessage(error) ==
    IF IsNone(error.message) THEN UnknownError ELSE Val(error.message)

\* Variant: the message test without .lower()
IsRateLimit_CaseSensitive(error) ==
    \/ ErrorCode(error) \in {4, 17, 613}
    \/ Contains(ErrorMessage(error), RateLimitText)

IsRateLimit(error) ==
    \/ ErrorCode(error) \in {4, 17, 613}
    \/ Contains(Lower(ErrorMessage(error)), RateLimitText)

\* Variant: the not-found test placed above the authentication test
Classify_NotFoundFirst(error, status_code) ==
    IF IsRateLimit(error) THEN "RateLimit"
    ELSE IF ErrorCode(error) = 803 \/ status_code = 404 THEN "NotFound"
    ELSE IF ErrorCode(error) \in {190, 102, 463, 467} THEN "Authentication"
    ELSE IF ErrorCode(error) \in {10, 200, 294} THEN "Permission"
    ELSE IF ErrorCode(error) = 100 THEN "Validation"
    ELSE "Generic"

\* Variant: the not-found test looking at the code only
Classify_CodeOnly(error, status_code) ==
    IF IsRateLimit(error) THEN "RateLimit"
    ELSE IF ErrorCode(error) \in {190, 102, 463, 467} THEN "Authentication"
    ELSE IF ErrorCode(error) = 803 THEN "NotFound"
    ELSE IF ErrorCode(error) \in {10, 200, 294} THEN "Permission"
    ELSE IF ErrorCode(error) = 100 THEN "Validation"
    ELSE "Generic"

\* The if-chain of _handle_response, top to bottom.
Classify(error, status_code) ==
    IF IsRateLimit(error) THEN "RateLimit"
    ELSE IF ErrorCode(error) \in {190, 102, 463, 467} THEN "Authentication"
    ELSE IF ErrorCode(error) = 803 \/ status_code = 404 THEN "NotFound"
    ELSE IF ErrorCode(error) \in {10, 200, 294} THEN "Permission"
    ELSE IF ErrorCode(error) = 100 THEN "Validation"
    ELSE "Generic"

\* Variant: the header never consulted
GetRetryAfter_AlwaysDefault(response) == DefaultRetryAfter

\* BaseClient._get_retry_after
GetRetryAfter(response) ==
    LET retry_after == response.retry_after
    IN  IF ~IsNone(retry_after) /\ Len(Val(retry_after)) > 0
           /\ ~IsNone(ParseInt(Val(retry_after)))
        THEN Val(ParseInt(Val(retry_after)))
        ELSE DefaultRetryAfter

----------------------------------------------------------------------------
(* JSON values of a response body *)

JAbsent == [j |-> "absent"]
JNull == [j |-> "null"]
JList(items) == [j |-> "list", v |-> items]
JStr(text) == [j |-> "str", text |-> text]
JPaging(next) == [j |-> "dict", next |-> next]
JUrl(url) == [j |-> "url", v |-> url]

\* A parsed JSON object: its "error", "data" and "paging" members.
Body(error, data, paging) ==
    [t |-> "dict", error |-> error, data |-> data, paging |-> paging]

\* A single-object success body such as {"id": "12345"}.
ObjectBody == Body(None, JAbsent, JAbsent)

\* requests.Response: kind "json" when response.json() parses, "text" when it
\* raises ValueError, "neterr" when the session raises RequestException.
Response(kind, status_code, retry_after, body) ==
    [kind |-> kind, status_code |-> status_code,
     retry_after |-> retry_after, body |-> body]

NoResponse == Response("none", 0, None, ObjectBody)

----------------------------------------------------------------------------
(* The remote service *)

ErrorCodes == {4, 17, 613, 190, 102, 463, 467, 803, 10, 200, 294, 100, 1}

MsgRateLimitUpper == <<"R","A","T","E"," ","L","I","M","I","T">>
MsgRateLimitInner == <<"(","#","4",")"," ","R","a","t","e"," ","l","i","m","i","T","!">>
MsgRateNoSpace == <<"R","a","t","e","l","i","m","i","t">>
MsgInvalidToken == <<"I","n","v","a","l","i","d"," ","t","o","k","e","n">>

RateLimitMessages == {MsgRateLimitUpper, MsgRateLimitInner}
OtherMessages == {MsgRateNoSpace, MsgInvalidToken}

\* {"error": {"code": ..., "message": ...}}; either member may be missing.
Envelopes ==
    [code : {None} \cup {Some(c) : c \in ErrorCodes},
     message : {None} \cup {Some(m) : m \in RateLimitMessages \cup OtherMessages}]

\* Envelopes the service uses to signal throttling.
ThrottleEnvelopes ==
    {e \in Envelopes :
        \/ e.code \in {Some(4), Some(17), Some(613)}
        \/ e.message \in {Some(m) : m \in RateLimitMessages}}

StatusCodes == {200, 400, 404}

\* Retry-After: missing, empty, an HTTP-date or other text, or delay-seconds.
\* The service sends it with throttling envelopes only.
RetryAfterHeaders == {None, Some(<<>>), Some(<<"s","o","o","n">>), Some(<<"1","7">>)}

ErrorResponses(envelopes) ==
    {Response("json", st, ra, Body(Some(e), JAbsent, JAbsent)) :
        st \in StatusCodes, ra \in RetryAfterHeaders,
        e \in envelopes \cap ThrottleEnvelopes}
    \cup {Response("json", st, None, Body(Some(e), JAbsent, JAbsent)) :
        st \in StatusCodes, e \in envelopes \ ThrottleEnvelopes}

\* response.text of a body that is not JSON
TextBody(raw) == [t |-> "text", raw |-> raw]

RawTexts == {"<html>502 Bad Gateway</html>", "Rate limit exceeded"}

TextResponses ==
    {Response("text", st, None, TextBody(raw)) : st \in {200, 500}, raw \in RawTexts}
NetworkErrors == {Response("neterr", 0, None, ObjectBody)}
SuccessResponses == {Response("json", st, None, ObjectBody) : st \in {200, 400}}

AnyResponses ==
    ErrorResponses(Envelopes) \cup TextResponses \cup NetworkErrors
        \cup SuccessResponses

\* An "error" member that is not an object: {"error": "down"}, {"error": null}.
ErrorNotObject == {JStr(<<"d", "o", "w", "n">>), JNull}

\* error.get exists: the "error" member is a JSON object
IsEnvelope(error) == "code" \in DOMAIN error

\* Responses of a service, or of a gateway in front of it, that also answers
\* with an "error" member of another JSON type.
LooseResponses ==
    AnyResponses \cup
    {Response("json", st, None, Body(Some(e), JAbsent, JAbsent)) :
        st \in {200, 400}, e \in ErrorNotObject}

\* A collection served as a chain of pages: page i holds sizes[i] items and,
\* unless it is the last, a paging.next URL whose "after" cursor names page
\* i + 1.
CollectionPath == "threat_descriptors"
ApiRoot == "https://graph.facebook.com/v19.0"
Cursors == <<"c1", "c2", "c3", "c4", "c5">>

Url(base, path, query) == [base |-> base, path |-> path, query |-> query]

Item(page, i) == [id |-> <<page, i>>]
PageItems(srv, page) ==
    IF page \in DOMAIN srv.sizes THEN [i \in 1..srv.sizes[page] |-> Item(page, i)]
    ELSE <<>>

NextUrl(page) ==
    Url(ApiRoot, CollectionPath,
        << <<"limit", "25">>, <<"after", Cursors[page]>>,
           <<"fields", "id">>, <<"fields", "indicator">> >>)

\* Another API version's root, as a service may use in its paging links.
HopRoot == "https://graph.facebook.com/v18.0"

\* The paging.next URL of page `page`. In mode "blank" the link has
\* parameters with blank values, in mode "token" an access_token of its own.
LinkUrl(srv, page) ==
    CASE srv.mode = "blank" ->
           Url(HopRoot, CollectionPath,
               NextUrl(page).query \o << <<"fields", "">>, <<"locale", "">> >>)
      [] srv.mode = "token" ->
           Url(HopRoot, CollectionPath,
               NextUrl(page).query \o << <<"access_token", "link_token">> >>)
      [] OTHER -> NextUrl(page)

\* In mode "loop" the service never ends the chain: its last page links to
\* an empty page whose paging.next is its own URL. In mode "emptynext" the
\* last page's paging.next is the empty string.
PageBody(srv, page) ==
    Body(None, JList(PageItems(srv, page)),
         IF page < Len(srv.sizes) THEN JPaging(JUrl(LinkUrl(srv, page)))
         ELSE IF srv.mode = "loop" THEN JPaging(JUrl(NextUrl(Len(srv.sizes))))
         ELSE IF srv.mode = "emptynext" THEN JPaging(JStr(<<>>))
         ELSE JPaging(JAbsent))

\* The page a GET on the collection asks for: the one after its cursor.
PageAsked(w) ==
    LET query == Val(w.query)
    IN  IF "after" \in DOMAIN query
        THEN 1 + (CHOOSE i \in 1..Len(Cursors) :
                      Scalar(Cursors[i]) = query["after"])
        ELSE 1

ThrottledResponse ==
    Response("json", 400, Some(<<"1","7">>),
             Body(Some([code |-> Some(4), message |-> None]), JAbsent, JAbsent))
ExpiredTokenResponse ==
    Response("json", 400, None,
             Body(Some([code |-> Some(190), message |-> Some(MsgInvalidToken)]),
                  JAbsent, JAbsent))

ChainResponses(srv, w) ==
    {ThrottledResponse, ExpiredTokenResponse} \cup
    IF w.method = "GET" /\ w.url.path = CollectionPath
    THEN {Response("json", 200, None, PageBody(srv, PageAsked(w)))}
    ELSE {Response("json", 200, None, ObjectBody)}

\* What the session can hand back for the request w.
Responses(srv, w) ==
    CASE srv.mode = "any" -> AnyResponses
      [] srv.mode = "loose" -> LooseResponses
      [] srv.mode = "throttled" -> ErrorResponses(ThrottleEnvelopes)
      [] srv.mode \in {"chain", "loop", "blank", "token", "emptynext"} ->
           ChainResponses(srv, w)

----------------------------------------------------------------------------
(* Client construction *)

\* BaseClient.__init__
Client(access_token, retry_on_rate_limit, max_retries) ==
    [access_token |-> access_token,
     retry_on_rate_limit |-> retry_on_rate_limit,
     max_retries |-> max_retries]

ClientToken == "test_token"

Configs ==
    {Client(ClientToken, TRUE, DefaultMaxRetries)}
        \cup {Client(ClientToken, r, n) : r \in BOOLEAN, n \in 0..MaxRetries}

----------------------------------------------------------------------------
(* Requests *)

Endpoint(base, path) == [base |-> base, path |-> path]

\* BaseClient._build_url: an endpoint that starts with "http" is used verbatim
BuildUrl(endpoint) ==
    IF endpoint.base # "" THEN endpoint
    ELSE Endpoint(BASE_URL \o "/" \o DEFAULT_VERSION, endpoint.path)

EmptyDict == <<>>
\* d[k] = v
Set(d, k, v) == (k :> v) @@ d
\* {**a, **b}
Merge(a, b) == b @@ a
\* x or {}
OrEmpty(o) == IF IsNone(o) THEN EmptyDict ELSE Val(o)

Frame(method, endpoint, params, data, retry_count) ==
    [method |-> method, endpoint |-> endpoint, params |-> params,
     data |-> data, retry_count |-> retry_count]

NoFrame == Frame("", Endpoint("", ""), None, None, 0)

\* The file part of a multipart upload.
FilePart(name, source) == [name |-> name, source |-> source]

Wire(method, url, query, body, files) ==
    [method |-> method, url |-> url, query |-> query, body |-> body,
     files |-> files]

NoWire == Wire("", Endpoint("", ""), None, None, None)

\* Variant: params["access_token"] never set
RequestWire_NoToken(frame, token) ==
    LET params == OrEmpty(frame.params)
    IN  Wire(frame.method, BuildUrl(frame.endpoint),
             IF frame.method = "GET" THEN Some(params) ELSE None,
             IF frame.method # "GET"
             THEN Some(Merge(params, OrEmpty(frame.data))) ELSE None,
             None)

\* session.request(...) arguments built by _request
RequestWire(frame, token) ==
    LET params == Set(OrEmpty(frame.params), "access_token", Scalar(token))
    IN  Wire(frame.method, BuildUrl(frame.endpoint),
             IF frame.method = "GET" THEN Some(params) ELSE None,
             IF frame.method # "GET"
             THEN Some(Merge(params, OrEmpty(frame.data))) ELSE None,
             None)

----------------------------------------------------------------------------
(* Outcomes of a logical call *)

NoDetails == [code |-> None, message |-> None]

\* ThreatExchangeError and its subclasses (exceptions.py)
Raised(kind, message, code, retry_after, details) ==
    [status |-> "raised", kind |-> kind, message |-> message, code |-> code,
     retry_after |-> retry_after, details |-> details, body |-> ObjectBody]

\* Variant: the result of the retried call not passed on
Returned_Nothing(body) ==
    [status |-> "returned", kind |-> "", message |-> <<>>, code |-> None,
     retry_after |-> None, details |-> NoDetails, body |-> ObjectBody]

Returned(body) ==
    [status |-> "returned", kind |-> "", message |-> <<>>, code |-> None,
     retry_after |-> None, details |-> NoDetails, body |-> body]

NoOutcome ==
    [status |-> "none", kind |-> "", message |-> <<>>, code |-> None,
     retry_after |-> None, details |-> NoDetails, body |-> ObjectBody]

----------------------------------------------------------------------------
(* Logical calls: _get, _post, _delete *)

Endpoints == {Endpoint("", "12345")}

\* A token other than the client's, put into the arguments by the caller or
\* into a continuation URL by the service.
OtherToken == "other_token"

GetParams ==
    {None, Some([fields |-> Scalar("id,indicator")]),
     Some([access_token |-> Scalar(OtherToken)])}
PostData ==
    {None, Some([description |-> Scalar("Test")]),
     Some([access_token |-> Scalar(OtherToken)])}
\* Query params of a _post; "description" also occurs in PostData.
PostParams == {None, Some([description |-> Scalar("Old"), fields |-> Scalar("id")])}
DeleteParams == {None, Some([member |-> Scalar("67890")])}

Idle == pc = "idle" /\ gen.state = "none"

\* Variant: the retry count carried over from the previous call
Call_KeepsRetryCount(who, method, endpoint, params, data) ==
    /\ caller' = who
    /\ req' = Frame(method, endpoint, params, data, req.retry_count)
    /\ pc' = "request"
    /\ attempts' = 0
    /\ sleeps' = 0
    /\ slept' = 0
    /\ outcome' = NoOutcome
    /\ wire' = NoWire
    /\ resp' = NoResponse

\* Entering _request(method, endpoint, params, data) with retry_count = 0
Call(who, method, endpoint, params, data) ==
    /\ caller' = who
    /\ req' = Frame(method, endpoint, params, data, 0)
    /\ pc' = "request"
    /\ attempts' = 0
    /\ sleeps' = 0
    /\ slept' = 0
    /\ outcome' = NoOutcome
    /\ wire' = NoWire
    /\ resp' = NoResponse

\* BaseClient._get
Get ==
    /\ Idle
    /\ \E e \in Endpoints, params \in GetParams :
           Call("get", "GET", e, params, None)
    /\ UNCHANGED <<ctx, other, cfg, server, gen, yielded, fetches, parseArgs, parsed,
                   upload, totalSleeps, consumer>>

\* BaseClient._post
Post ==
    /\ Idle
    /\ \E e \in Endpoints, data \in PostData, params \in PostParams :
           Call("post", "POST", e, params, data)
    /\ UNCHANGED <<ctx, other, cfg, server, gen, yielded, fetches, parseArgs, parsed,
                   upload, totalSleeps, consumer>>

\* BaseClient._delete
Delete ==
    /\ Idle
    /\ \E e \in Endpoints, params \in DeleteParams :
           Call("delete", "DELETE", e, params, None)
    /\ UNCHANGED <<ctx, other, cfg, server, gen, yielded, fetches, parseArgs, parsed,
                   upload, totalSleeps, consumer>>

----------------------------------------------------------------------------
(* BaseClient._request: build the request, perform the exchange *)

Request ==
    /\ pc = "request"
    /\ LET w == RequestWire(req, cfg.access_token)
           params == Set(OrEmpty(req.params), "access_token",
                         Scalar(cfg.access_token))
       IN  /\ wire' = w
           /\ attempts' = attempts + 1
           /\ \E r \in Responses(server, w) :
                /\ resp' = r
                /\ IF r.kind = "neterr"
                   THEN \* except requests.RequestException
                        /\ pc' = "done"
                        /\ outcome' = Raised("Generic", <<"Request failed">>,
                                             None, None, NoDetails)
                        /\ req' = req
                   ELSE /\ pc' = "handle"
                        /\ outcome' = outcome
                        /\ req' = [req EXCEPT !.params = Some(params)]
    /\ UNCHANGED <<ctx, other, cfg, server, sleeps, slept, caller, gen, yielded, fetches,
                   parseArgs, parsed,
                   upload, totalSleeps, consumer>>

----------------------------------------------------------------------------
(* BaseClient._handle_response *)

\* Variant: the raw text left out of the message
ApiErrorMessage_NoText(response) ==
    <<"API error: ", ToString(response.status_code)>>

\* f"API error: {response.status_code} - {response.text}"
ApiErrorMessage(response) ==
    <<"API error: ", ToString(response.status_code), " - ", response.body.raw>>

\* The exception raised for an error envelope that is not retried.
ErrorFor(error, response) ==
    LET kind == Classify(error, response.status_code)
    IN  Raised(kind, ErrorMessage(error), Some(ErrorCode(error)),
               IF kind = "RateLimit" THEN Some(GetRetryAfter(response)) ELSE None,
               IF kind = "Generic" THEN error ELSE NoDetails)

\* Variant: the retry_on_rate_limit flag not consulted
ShouldRetry_IgnoresFlag(config, retry_count) ==
    retry_count < config.max_retries

\* Variant: <= in place of <
ShouldRetry_Inclusive(config, retry_count) ==
    config.retry_on_rate_limit /\ retry_count <= config.max_retries

\* if self.retry_on_rate_limit and retry_count < self.max_retries
ShouldRetry(config, retry_count) ==
    config.retry_on_rate_limit /\ retry_count < config.max_retries

HandleResponse ==
    /\ pc = "handle"
    /\ IF resp.kind = "text"
       THEN \* response.json() raised ValueError
            /\ outcome' =
                 IF resp.status_code >= 400
                 THEN Raised("Generic", ApiErrorMessage(resp),
                             Some(resp.status_code), None, NoDetails)
                 ELSE Raised("Generic", <<"Invalid JSON response from API">>,
                             None, None, NoDetails)
            /\ pc' = "done"
            /\ UNCHANGED <<req, sleeps, totalSleeps, slept, resp>>
       ELSE IF ~IsNone(resp.body.error)
       THEN LET error == Val(resp.body.error)
            IN  IF ~IsEnvelope(error)
                THEN \* error.get(...) raises AttributeError
                     /\ outcome' = Raised("AttributeError", <<>>, None, None,
                                          NoDetails)
                     /\ pc' = "done"
                     /\ UNCHANGED <<req, sleeps, totalSleeps, slept, resp>>
                ELSE
                IF IsRateLimit(error) /\ ShouldRetry(cfg, req.retry_count)
                THEN \* time.sleep(retry_after); return self._request(...)
                     /\ sleeps' = sleeps + 1
                     /\ totalSleeps' =
                          Counted(totalSleeps, MaxFetches * DefaultMaxRetries)
                     /\ slept' = GetRetryAfter(resp)
                     /\ req' = [req EXCEPT !.retry_count = req.retry_count + 1]
                     /\ pc' = "request"
                     /\ outcome' = outcome
                     /\ resp' = NoResponse   \* the new frame has none yet
                ELSE /\ outcome' = ErrorFor(error, resp)
                     /\ pc' = "done"
                     /\ UNCHANGED <<req, sleeps, totalSleeps, slept, resp>>
       ELSE /\ outcome' = Returned(resp.body)
            /\ pc' = "done"
            /\ UNCHANGED <<req, sleeps, totalSleeps, slept, resp>>
    /\ UNCHANGED <<ctx, other, cfg, server, wire, attempts, caller, gen, yielded, fetches,
                   parseArgs, parsed, upload, consumer>>

----------------------------------------------------------------------------
(* BaseClient._upload_file *)

FilePaths == {None, Some([dir |-> "/tmp", base |-> "hashes.csv"])}
FileContents == {None, Some("bytes")}
UploadData ==
    {None, Some([description |-> Scalar("Test")]),
     Some([access_token |-> Scalar(OtherToken)])}

\* The file_path and file_content arguments of an _upload_file call.
UploadArgs(file_path, file_content) ==
    [called |-> TRUE, file_path |-> file_path, file_content |-> file_content]

NoUpload == [called |-> FALSE, file_path |-> None, file_content |-> None]

\* files = {"file": (...)} as built by the two branches of _upload_file
UploadPart(file_path, file_content, file_name) ==
    IF ~IsNone(file_path)
    THEN FilePart(IF ~IsNone(file_name) THEN file_name
                  ELSE Some(Val(file_path).base), "path")
    ELSE FilePart(file_name, IF IsNone(file_content) THEN "none" ELSE "content")

UploadFile ==
    /\ Idle
    /\ \E e \in Endpoints, file_path \in FilePaths, file_content \in FileContents,
          d \in UploadData :
         LET data == Set(OrEmpty(d), "access_token", Scalar(cfg.access_token))
             w == Wire("POST", BuildUrl(e), None, Some(data),
                       Some(UploadPart(file_path, file_content, None)))
         IN  /\ wire' = w
             /\ attempts' = 1
             /\ \E r \in Responses(server, w) :
                  /\ resp' = r
                  /\ IF r.kind = "neterr"
                     THEN \* session.post raises; nothing here catches it
                          /\ pc' = "done"
                          /\ outcome' = Raised("RequestException", <<>>, None,
                                               None, NoDetails)
                     ELSE /\ pc' = "handle"
                          /\ outcome' = NoOutcome
             /\ req' = Frame("POST", e, None, Some(data), 0)
             /\ upload' = UploadArgs(file_path, file_content)
    /\ caller' = "upload"
    /\ sleeps' = 0
    /\ slept' = 0
    /\ UNCHANGED <<ctx, other, cfg, server, gen, yielded, fetches, parseArgs, parsed,
                   totalSleeps, consumer>>

----------------------------------------------------------------------------
(* PaginatedResponse.from_dict (models.py) *)

\* The transform the endpoint mixins pass as item_factory.
ItemFactory(item) == [obj |-> item]

\* Values a for loop or comprehension can iterate; the others raise TypeError.
Iterable(v) == v.j \in {"list", "str"}

\* What iterating yields: the elements of a list, the characters of a str.
Elements(v) ==
    IF v.j = "list" THEN v.v
    ELSE [i \in 1..Len(v.text) |-> [ch |-> v.text[i]]]

Page(raised, data, next_url, has_next) ==
    [raised |-> raised, data |-> data, next_url |-> next_url,
     has_next |-> has_next]

\* from_dict did not return: AttributeError or TypeError
PageRaised == Page(TRUE, JNull, None, FALSE)

\* Variant: has_next taken from the paging object being non-empty
FromDict_HasNextFromPaging(body, item_factory) ==
    IF body.t # "dict" THEN PageRaised
    ELSE
    LET items == IF body.data = JAbsent THEN JList(<<>>) ELSE body.data
        paging == IF body.paging = JAbsent THEN JPaging(JAbsent) ELSE body.paging
    IN  IF item_factory /\ ~Iterable(items) THEN PageRaised
        ELSE IF paging.j # "dict" THEN PageRaised
        ELSE
        LET mapped == IF item_factory
                      THEN JList([i \in 1..Len(Elements(items)) |->
                                    ItemFactory(Elements(items)[i])])
                      ELSE items
            next_url == IF paging.next \in {JAbsent, JNull} THEN None
                        ELSE Some(paging.next)
        IN  Page(FALSE, mapped, next_url, paging # JPaging(JAbsent))

FromDict(body, item_factory) ==
    IF body.t # "dict" THEN PageRaised            \* data.get on a non-dict
    ELSE
    LET items == IF body.data = JAbsent THEN JList(<<>>) ELSE body.data
        paging == IF body.paging = JAbsent THEN JPaging(JAbsent) ELSE body.paging
    IN  IF item_factory /\ ~Iterable(items) THEN PageRaised
        ELSE IF paging.j # "dict" THEN PageRaised  \* paging.get on a non-dict
        ELSE
        LET mapped == IF item_factory
                      THEN JList([i \in 1..Len(Elements(items)) |->
                                    ItemFactory(Elements(items)[i])])
                      ELSE items
            next_url == IF paging.next \in {JAbsent, JNull} THEN None
                        ELSE Some(paging.next)
        IN  Page(FALSE, mapped, next_url, ~IsNone(next_url))

NoPage == Page(FALSE, JList(<<>>), None, FALSE)

\* Bodies handed to from_dict directly: "data" and "paging" each missing, null,
\* well formed or of another JSON type.
ParseData ==
    {JAbsent, JNull, JList(<<>>), JList(<<Item(1, 1), Item(1, 2)>>),
     JList(<<Item(1, 2), Item(1, 1)>>), JStr(<<"a", "b">>)}
ParsePaging ==
    {JAbsent, JNull, JPaging(JAbsent), JPaging(JNull), JPaging(JStr(<<>>)),
     JPaging(JUrl(NextUrl(1))), JStr(<<"x">>), JList(<<>>)}
ParseBodies ==
    {Body(None, d, pg) : d \in ParseData, pg \in ParsePaging}

ParseArgs == [body : ParseBodies, item_factory : BOOLEAN]

\* PaginatedResponse.from_dict(body, item_factory)
FromDictCall ==
    /\ IsNone(parsed)
    /\ parsed' = Some(FromDict(parseArgs.body, parseArgs.item_factory))
    /\ UNCHANGED <<ctx, other, cfg, server, pc, req, wire, resp, attempts, sleeps, slept,
                   outcome, caller, gen, yielded, fetches, parseArgs,
                   upload, totalSleeps, consumer>>

----------------------------------------------------------------------------
(* BaseClient._paginate *)

PaginateParams == {None, Some([limit |-> Scalar("25")])}
Limits == {None} \cup {Some(n) : n \in 0..MaxLimit}

Generator(state, endpoint, params, item_factory, limit, count, next_url, page, idx) ==
    [state |-> state, endpoint |-> endpoint, params |-> params,
     item_factory |-> item_factory, limit |-> limit, count |-> count,
     next_url |-> next_url, page |-> page, idx |-> idx]

NoGenerator ==
    Generator("none", Endpoint("", ""), None, FALSE, None, 0, None, NoPage, 0)

\* The code driving the generator: how many times it has called next(), and
\* whether it has stopped iterating.
Consumer(asked, abandoned) == [asked |-> asked, abandoned |-> abandoned]

\* One traversal: the generator's frame and what its consumer has seen of it.
Traversal(g, y, f, sl, c) ==
    [gen |-> g, yielded |-> y, fetches |-> f, totalSleeps |-> sl,
     consumer |-> c]

NoTraversal == Traversal(NoGenerator, <<>>, 0, 0, Consumer(0, FALSE))

\* Variant: the body starts running when _paginate is called
Paginate_Eager ==
    /\ Idle
    /\ \E params \in PaginateParams, item_factory \in BOOLEAN, limit \in Limits :
         gen' = Generator("fetch", Endpoint("", CollectionPath),
                          Some(Set(OrEmpty(params), "limit", Scalar(DEFAULT_LIMIT))),
                          item_factory, limit, 0, None, NoPage, 0)
    /\ yielded' = <<>>
    /\ fetches' = 0
    /\ totalSleeps' = 0
    /\ consumer' = Consumer(0, FALSE)
    /\ UNCHANGED <<ctx, other, cfg, server, pc, req, wire, resp, attempts, sleeps, slept,
                   outcome, caller, parseArgs, parsed, upload>>

\* Calling _paginate only creates the generator; its body runs on next().
Paginate ==
    /\ Idle
    /\ \E params \in PaginateParams, item_factory \in BOOLEAN, limit \in Limits :
         gen' = Generator("created", Endpoint("", CollectionPath), params,
                          item_factory, limit, 0, None, NoPage, 0)
    /\ yielded' = <<>>
    /\ fetches' = 0
    /\ totalSleeps' = 0
    /\ consumer' = Consumer(0, FALSE)
    /\ UNCHANGED <<ctx, other, cfg, server, pc, req, wire, resp, attempts, sleeps, slept,
                   outcome, caller, parseArgs, parsed, upload>>

\* Python truth value of next_url
Truthy(next_url) == ~IsNone(next_url) /\ Val(next_url) # JStr(<<>>)

\* if limit and count >= limit
LimitReached(limit, count) ==
    ~IsNone(limit) /\ Val(limit) # 0 /\ count >= Val(limit)

\* Variant: the loop left after the first page
AfterPage_AlwaysBreaks(g) == [g EXCEPT !.state = "done"]

\* After the for loop: break when the page has no continuation, else go round.
AfterPage(g) ==
    IF ~g.page.has_next THEN [g EXCEPT !.state = "done"]
    ELSE [g EXCEPT !.state = "fetch", !.next_url = g.page.next_url]

\* The for loop reaching its next iteration: yield data[idx + 1] if there is one.
ForLoop(g) ==
    IF g.idx < Len(Elements(g.page.data))
    THEN [g EXCEPT !.state = "yield", !.idx = g.idx + 1]
    ELSE AfterPage(g)

Emit(g) ==
    IF g.state = "yield" THEN Append(yielded, Elements(g.page.data)[g.idx])
    ELSE yielded

\* The consumer asks for the next item: next(generator).
ConsumerNext ==
    /\ gen.state \in {"created", "yield"}
    /\ LET g == IF gen.state = "created"
                THEN \* params = params or {}; default page size; count = 0
                     LET params == OrEmpty(gen.params)
                     IN  [gen EXCEPT
                            !.params = Some(IF "limit" \in DOMAIN params THEN params
                                            ELSE Set(params, "limit",
                                                     Scalar(DEFAULT_LIMIT))),
                            !.count = 0, !.next_url = None, !.state = "fetch"]
                ELSE \* resumed after yield: count += 1, limit check, loop on
                     LET counted == [gen EXCEPT !.count = gen.count + 1]
                     IN  IF LimitReached(counted.limit, counted.count)
                         THEN [counted EXCEPT !.state = "done"]
                         ELSE ForLoop(counted)
       IN  /\ gen' = g
           /\ yielded' = Emit(g)
    /\ consumer' = [consumer EXCEPT !.asked = consumer.asked + 1]
    /\ UNCHANGED <<ctx, other, cfg, server, pc, req, wire, resp, attempts, sleeps, slept,
                   outcome, caller, fetches, parseArgs, parsed, upload,
                   totalSleeps>>

\* Variant: the generator runs on when it is closed
Close_RunsOn(g) ==
    IF g.state = "yield" THEN ForLoop([g EXCEPT !.count = g.count + 1])
    ELSE [g EXCEPT !.state = "fetch"]

\* generator.close(), or the generator object being dropped: GeneratorExit is
\* raised at the yield the generator is suspended on; _paginate has no
\* except or finally clause, so the generator just ends.
Close(g) == [g EXCEPT !.state = "closed"]

\* The consumer stops iterating before the generator is exhausted.
Abandon ==
    /\ gen.state \in {"created", "yield"}
    /\ ~consumer.abandoned
    /\ gen' = Close(gen)
    /\ consumer' = [consumer EXCEPT !.abandoned = TRUE]
    /\ UNCHANGED <<ctx, other, cfg, server, pc, req, wire, resp, attempts, sleeps, slept,
                   outcome, caller, yielded, fetches, parseArgs, parsed, upload,
                   totalSleeps>>

\* parse_qs(parsed.query): values grouped by key, blank values dropped
ParseQs(query) ==
    LET kept == SelectSeq(query, LAMBDA kv : kv[2] # "")
        ValuesOf(k) ==
            LET mine == SelectSeq(kept, LAMBDA kv : kv[1] = k)
            IN  [i \in 1..Len(mine) |-> mine[i][2]]
    IN  [k \in {kept[i][1] : i \in 1..Len(kept)} |-> ValuesOf(k)]

\* {k: v[0] if len(v) == 1 else v for k, v in query_params.items()}
Flatten(query_params) ==
    [k \in DOMAIN query_params |->
        IF Len(query_params[k]) = 1 THEN Scalar(query_params[k][1])
        ELSE [l |-> query_params[k]]]

\* Top of the while loop: the _get for the next page.
PaginateFetch ==
    /\ gen.state = "fetch"
    /\ pc = "idle"
    /\ IF Truthy(gen.next_url)
       THEN LET url == Val(gen.next_url).v     \* urlparse(next_url)
                params == Set(Flatten(ParseQs(url.query)), "access_token",
                              Scalar(cfg.access_token))
            IN  /\ Call("paginate", "GET", Endpoint(url.base, url.path),
                        Some(params), None)
                /\ gen' = [gen EXCEPT !.state = "wait", !.params = Some(params)]
       ELSE /\ Call("paginate", "GET", gen.endpoint, gen.params, None)
            /\ gen' = [gen EXCEPT !.state = "wait"]
    /\ fetches' = Counted(fetches, MaxFetches)
    /\ UNCHANGED <<ctx, other, cfg, server, yielded, parseArgs, parsed,
                   upload, totalSleeps, consumer>>

\* Variant: a failed fetch ends the traversal silently
PaginatePage_SwallowsFailure ==
    /\ gen.state = "wait"
    /\ pc = "done"
    /\ LET page == FromDict(outcome.body, gen.item_factory)
           g == IF outcome.status = "raised"
                THEN [gen EXCEPT !.state = "done"]
                ELSE IF page.raised \/ ~Iterable(page.data)
                THEN [gen EXCEPT !.state = "raised", !.page = page]
                ELSE ForLoop([gen EXCEPT !.page = page, !.idx = 0])
       IN  /\ gen' = g
           /\ yielded' = Emit(g)
    /\ pc' = "idle"
    /\ UNCHANGED <<ctx, other, cfg, server, req, wire, resp, attempts, sleeps, slept,
                   outcome, caller, fetches, parseArgs, parsed,
                   upload, totalSleeps, consumer>>

\* _get came back: parse the page and run the for loop up to its first yield.
PaginatePage ==
    /\ gen.state = "wait"
    /\ pc = "done"
    /\ LET page == FromDict(outcome.body, gen.item_factory)
           g == IF outcome.status = "raised"
                THEN [gen EXCEPT !.state = "raised"]    \* _get raised
                ELSE IF page.raised \/ ~Iterable(page.data)
                THEN [gen EXCEPT !.state = "raised", !.page = page]
                ELSE ForLoop([gen EXCEPT !.page = page, !.idx = 0])
       IN  /\ gen' = g
           /\ yielded' = Emit(g)
    /\ pc' = "idle"
    /\ UNCHANGED <<ctx, other, cfg, server, req, wire, resp, attempts, sleeps, slept,
                   outcome, caller, fetches, parseArgs, parsed,
                   upload, totalSleeps, consumer>>

----------------------------------------------------------------------------
(* Two generators of one client *)

\* States in which a generator is not running: not begun, suspended at a
\* yield, or over.
Parked == {"none", "created", "yield", "done", "raised", "closed"}

\* Variant: count and next_url kept on the client, not in the generator
Resume_SharedCursor(t, last) ==
    IF t.gen.state = "none" THEN t.gen
    ELSE [t.gen EXCEPT !.count = last.count, !.next_url = last.next_url]

\* The frame a generator runs in when its consumer calls next(): params,
\* count, next_url, limit and the page being iterated are locals of
\* _paginate, so they are the generator's own, whatever ran in between.
Resume(t, last) == t.gen

\* The consumers turn from one generator to the other: a generator runs
\* only inside next(), so this happens only while both are parked.
Switch ==
    /\ pc = "idle"
    /\ gen.state \in Parked
    /\ gen' = Resume(other, gen)
    /\ yielded' = other.yielded
    /\ fetches' = other.fetches
    /\ totalSleeps' = other.totalSleeps
    /\ consumer' = other.consumer
    /\ other' = Traversal(gen, yielded, fetches, totalSleeps, consumer)
    /\ UNCHANGED <<ctx, cfg, server, pc, req, wire, resp, attempts, sleeps,
                   slept, outcome, caller, parseArgs, parsed, upload>>

----------------------------------------------------------------------------
(* BaseClient.close, __enter__, __exit__ *)

\* The client as the target of a with statement: where control is relative
\* to the block, the state of the requests session, the object bound by
\* "as", the exception the block ended with and the one that left the with
\* statement.
Context(block, session, bound, ended_with, propagated) ==
    [block |-> block, session |-> session, bound |-> bound,
     ended_with |-> ended_with, propagated |-> propagated]

NoContext == Context("none", "open", None, None, None)

\* close(): self._session.close()
CloseSession(c) == [c EXCEPT !.session = "closed"]

\* __enter__ returns self
Enter ==
    /\ Idle
    /\ ctx.block = "none"
    /\ ctx' = [ctx EXCEPT !.block = "inside", !.bound = Some(cfg)]
    /\ UNCHANGED <<other, cfg, server, pc, req, wire, resp, attempts, sleeps,
                   slept, outcome, caller, gen, yielded, fetches, parseArgs,
                   parsed, upload, totalSleeps, consumer>>

\* Variant: the session is closed only when the block ends normally
Exit_LeavesOpenOnError(c, exc) ==
    [c |-> IF IsNone(exc) THEN CloseSession(c) ELSE c, ret |-> None]

\* __exit__(exc_type, exc_val, exc_tb): self.close(), and no return statement
Exit(c, exc) == [c |-> CloseSession(c), ret |-> None]

\* Exceptions raised by the block's own code.
BlockErrors == {"ValueError"}

\* The with block ends: normally, with the failure of the call it made, or
\* with an exception of its own. The with statement re-raises the exception
\* unless __exit__ returned a true value.
ExitBlock ==
    /\ ctx.block = "inside"
    /\ pc \in {"idle", "done"}
    /\ \E exc \in {None} \cup {Some(e) : e \in BlockErrors}
                  \cup {Some(outcome.kind) : x \in
                           IF pc = "done" /\ outcome.status = "raised"
                           THEN {1} ELSE {}} :
         /\ (pc = "done" /\ outcome.status = "raised") => ~IsNone(exc)
         /\ LET r == Exit(ctx, exc)
            IN  ctx' = [r.c EXCEPT !.block = "exited", !.ended_with = exc,
                                   !.propagated = IF r.ret = Some(TRUE)
                                                  THEN None ELSE exc]
    /\ UNCHANGED <<other, cfg, server, pc, req, wire, resp, attempts, sleeps,
                   slept, outcome, caller, gen, yielded, fetches, parseArgs,
                   parsed, upload, totalSleeps, consumer>>

----------------------------------------------------------------------------
(* Specifications *)

ChainServers ==
    {[mode |-> "chain", sizes |-> sizes] :
        sizes \in UNION {[1..k -> 0..MaxPageLen] : k \in 1..MaxPages}}

Servers == {[mode |-> "any"], [mode |-> "throttled"]}

LooseServers == {[mode |-> "loose"]}

LoopServers ==
    {[mode |-> "loop", sizes |-> sizes] :
        sizes \in UNION {[1..k -> 0..MaxPageLen] : k \in 1..MaxPages}}

NoParseArgs == [body |-> ObjectBody, item_factory |-> FALSE]

InitWith(servers) ==
    /\ cfg \in Configs
    /\ parseArgs = NoParseArgs
    /\ parsed = Some(NoPage)
    /\ server \in servers
    /\ pc = "idle"
    /\ req = NoFrame
    /\ wire = NoWire
    /\ resp = NoResponse
    /\ attempts = 0
    /\ sleeps = 0
    /\ slept = 0
    /\ outcome = NoOutcome
    /\ caller = "none"
    /\ gen = NoGenerator
    /\ yielded = <<>>
    /\ fetches = 0
    /\ upload = NoUpload
    /\ totalSleeps = 0
    /\ consumer = Consumer(0, FALSE)
    /\ ctx = NoContext
    /\ other = NoTraversal

Init == InitWith(ChainServers)

Next ==
    \/ Get
    \/ Post
    \/ Delete
    \/ UploadFile
    \/ Request
    \/ HandleResponse
    \/ Paginate
    \/ ConsumerNext
    \/ PaginateFetch
    \/ PaginatePage
    \/ Abandon

Spec == Init /\ [][Next]_vars

InitClassify == InitWith(Servers)

NextClassify ==
    \/ Get
    \/ Post
    \/ Delete
    \/ UploadFile
    \/ Request
    \/ HandleResponse

SpecClassify == InitClassify /\ [][NextClassify]_vars

\* Traversals consumed to the end, of services that end the chain and of
\* services that never do. The consumer keeps asking, every request is
\* answered, and the client's code runs on.
InitTraverse == InitWith(ChainServers \cup LoopServers)

NextTraverse ==
    \/ Paginate
    \/ ConsumerNext
    \/ PaginateFetch
    \/ Request
    \/ HandleResponse
    \/ PaginatePage

SpecTraverse ==
    /\ InitTraverse
    /\ [][NextTraverse]_vars
    /\ WF_vars(ConsumerNext)
    /\ WF_vars(PaginateFetch)
    /\ WF_vars(Request)
    /\ WF_vars(HandleResponse)
    /\ WF_vars(PaginatePage)

\* Traversals of services whose paging links are unusual: blank-valued
\* parameters, a token in the link, an empty string as the last link (served
\* with an empty last page).
HopServers ==
    {[mode |-> m, sizes |-> sizes] :
        m \in {"blank", "token"}, sizes \in {<<1, 1>>, <<2, 0>>}}
    \cup {[mode |-> "emptynext", sizes |-> sizes] :
            sizes \in {<<0>>, <<2, 0>>}}

InitHops == InitWith(HopServers)

SpecHops == InitHops /\ [][NextTraverse]_vars

\* Two traversals of the same collection on one client, their consumers
\* taking turns in any order.
InterleaveServers ==
    {[mode |-> "chain", sizes |-> sizes] : sizes \in {<<1, 2>>, <<2, 0>>}}

InitInterleave ==
    /\ InitWith(InterleaveServers)
    /\ cfg = Client(ClientToken, TRUE, 1)

NextInterleave ==
    \/ Paginate
    \/ ConsumerNext
    \/ PaginateFetch
    \/ Request
    \/ HandleResponse
    \/ PaginatePage
    \/ Abandon
    \/ Switch

SpecInterleave == InitInterleave /\ [][NextInterleave]_vars

\* A client used in a with block, making at most one call.
ContextServers == {[mode |-> "chain", sizes |-> <<1>>]}

InitContext == InitWith(ContextServers)

NextContext ==
    \/ Enter
    \/ Get
    \/ Post
    \/ Delete
    \/ UploadFile
    \/ Request
    \/ HandleResponse
    \/ ExitBlock

SpecContext == InitContext /\ [][NextContext]_vars

\* Calls against a service whose bodies are JSON of any shape.
InitBodies == InitWith(LooseServers)

SpecBodies == InitBodies /\ [][NextClassify]_vars

InitParse ==
    /\ cfg = Client(ClientToken, TRUE, DefaultMaxRetries)
    /\ server = [mode |-> "any"]
    /\ pc = "idle"
    /\ req = NoFrame
    /\ wire = NoWire
    /\ resp = NoResponse
    /\ attempts = 0
    /\ sleeps = 0
    /\ slept = 0
    /\ outcome = NoOutcome
    /\ caller = "none"
    /\ gen = NoGenerator
    /\ yielded = <<>>
    /\ fetches = 0
    /\ upload = NoUpload
    /\ totalSleeps = 0
    /\ consumer = Consumer(0, FALSE)
    /\ ctx = NoContext
    /\ other = NoTraversal
    /\ parseArgs \in ParseArgs
    /\ parsed = None

NextParse == FromDictCall

SpecParse == InitParse /\ [][NextParse]_vars

----------------------------------------------------------------------------
(* Properties of error classification and retry (SpecClassify) *)

\* The response just handled is an error envelope.
HandledEnvelope ==
    pc = "done" /\ resp.kind = "json" /\ ~IsNone(resp.body.error)

\* The same letter in the other case.
SameLetter(c, d) ==
    \/ c = d
    \/ \E i \in 1..Len(LowerChars) :
          {c, d} = {LowerChars[i], UpperChars[i]}

\* text occurs in message, letters compared without regard to case.
OccursAnyCase(message, text) ==
    \E start \in 1..Len(message) :
        /\ start + Len(text) - 1 <= Len(message)
        /\ \A j \in 1..Len(text) : SameLetter(message[start + j - 1], text[j])

HasCode(error, codes) == ~IsNone(error.code) /\ Val(error.code) \in codes

SignalsRateLimit(error) ==
    \/ HasCode(error, {4, 17, 613})
    \/ /\ ~IsNone(error.message)
       /\ OccursAnyCase(Val(error.message), RateLimitText)

\* HandleResponse took the retry branch: it slept and re-entered _request.
Retried ==
    /\ pc' = "request"
    /\ sleeps' = sleeps + 1
    /\ req'.retry_count = req.retry_count + 1

C1_Step ==
    (pc = "handle" /\ resp.kind = "json" /\ ~IsNone(resp.body.error)
        /\ SignalsRateLimit(Val(resp.body.error)))
    => \/ Retried
       \/ pc' = "done" /\ outcome'.status = "raised" /\ outcome'.kind = "RateLimit"

\* C1: an error envelope whose code is 4, 17 or 613, or whose message contains
\* "rate limit" in any letter case, is handled as RateLimit (retried, or raised
\* as RateLimitError) whatever the HTTP status and whatever later bucket its
\* code or status would also match.
C1_RateLimitWins == [][C1_Step]_vars

\* A rate-limit message on an authentication code with status 404 ended as
\* RateLimitError.
C1_Witness ==
    /\ HandledEnvelope
    /\ Val(resp.body.error).code = Some(190)
    /\ Val(resp.body.error).message = Some(MsgRateLimitInner)
    /\ resp.status_code = 404
    /\ outcome.kind = "RateLimit"

PriorityKinds ==
    <<"RateLimit", "Authentication", "NotFound", "Permission", "Validation",
      "Generic">>

\* Which rule of the priority list matches, rule by rule.
RuleMatches(error, status_code) ==
    <<SignalsRateLimit(error),
      HasCode(error, {190, 102, 463, 467}),
      HasCode(error, {803}) \/ status_code = 404,
      HasCode(error, {10, 200, 294}),
      HasCode(error, {100}),
      TRUE>>

FirstMatch(error, status_code) ==
    LET m == RuleMatches(error, status_code)
    IN  PriorityKinds[CHOOSE i \in 1..Len(m) : m[i] /\ \A j \in 1..(i - 1) : ~m[j]]

\* C2: a handled error envelope ends in one failure, of the kind of the first
\* matching rule of the priority list; the Generic failure carries the whole
\* envelope as its details.
C2_FirstMatchWins ==
    HandledEnvelope =>
        /\ outcome.status = "raised"
        /\ outcome.kind = FirstMatch(Val(resp.body.error), resp.status_code)
        /\ outcome.kind = "Generic" => outcome.details = Val(resp.body.error)

\* An authentication code received with status 404 ended as Authentication.
C2_Witness ==
    /\ HandledEnvelope
    /\ Val(resp.body.error).code = Some(463)
    /\ resp.status_code = 404
    /\ outcome.kind = "Authentication"

\* C3: code 803, or HTTP status 404, is NotFound whenever no rate-limit or
\* authentication rule matches, also when the code is a Permission or
\* Validation code.
C3_NotFound ==
    (/\ HandledEnvelope
     /\ ~SignalsRateLimit(Val(resp.body.error))
     /\ ~HasCode(Val(resp.body.error), {190, 102, 463, 467})
     /\ \/ HasCode(Val(resp.body.error), {803})
        \/ resp.status_code = 404)
    => outcome.status = "raised" /\ outcome.kind = "NotFound"

\* A Validation code received with status 404 ended as NotFound.
C3_Witness ==
    /\ HandledEnvelope
    /\ Val(resp.body.error).code = Some(100)
    /\ resp.status_code = 404
    /\ outcome.kind = "NotFound"

\* The retry-after value the Retry-After header stands for.
HeaderSeconds(response) ==
    IF response.retry_after = Some(<<"1", "7">>) THEN 17 ELSE 60

\* C4: with retry_on_rate_limit = false a rate-limited call makes one HTTP
\* attempt, never sleeps, and fails with RateLimitError carrying the
\* retry-after value, whatever max_retries is.
C4_NoRetryWhenDisabled ==
    ~cfg.retry_on_rate_limit =>
        /\ attempts <= 1
        /\ sleeps = 0
        /\ (HandledEnvelope /\ SignalsRateLimit(Val(resp.body.error))) =>
              /\ attempts = 1
              /\ outcome.status = "raised"
              /\ outcome.kind = "RateLimit"
              /\ outcome.retry_after = Some(HeaderSeconds(resp))

\* Retries disabled with max_retries = 1: RateLimitError after one attempt.
C4_Witness ==
    /\ ~cfg.retry_on_rate_limit
    /\ cfg.max_retries = 1
    /\ HandledEnvelope
    /\ outcome.kind = "RateLimit"
    /\ outcome.retry_after = Some(17)
    /\ attempts = 1

\* C5: against a service that throttles every attempt, a client with retries
\* enabled and max_retries = N makes N + 1 attempts, with retry_count going
\* 0..N, sleeps N times, and then fails with RateLimitError; by default N = 3.
C5_RetriesThenFails ==
    (server.mode = "throttled" /\ cfg.retry_on_rate_limit /\ pc # "idle") =>
        /\ attempts <= cfg.max_retries + 1
        /\ req.retry_count = IF pc = "request" THEN attempts ELSE attempts - 1
        /\ sleeps = req.retry_count
        /\ pc = "done" =>
              /\ outcome.status = "raised"
              /\ outcome.kind = "RateLimit"
              /\ attempts = cfg.max_retries + 1
              /\ (cfg = Client(ClientToken, TRUE, DefaultMaxRetries)
                    => attempts = 4)

\* The default client gave up after its fourth attempt.
C5_Witness ==
    /\ server.mode = "throttled"
    /\ cfg = Client(ClientToken, TRUE, DefaultMaxRetries)
    /\ pc = "done"
    /\ outcome.kind = "RateLimit"
    /\ attempts = 4
    /\ sleeps = 3

----------------------------------------------------------------------------
(* Properties of a pagination traversal (Spec) *)

RECURSIVE ItemsFrom(_, _)
\* The items of pages page, page + 1, ... of the chain, in server order.
ItemsFrom(srv, page) ==
    IF page > Len(srv.sizes) THEN <<>>
    ELSE PageItems(srv, page) \o ItemsFrom(srv, page + 1)

\* What the consumer is to receive: every item, through item_factory if given.
Expected ==
    LET raw == ItemsFrom(server, 1)
    IN  IF gen.item_factory THEN [i \in 1..Len(raw) |-> [obj |-> raw[i]]]
        ELSE raw

IsPrefix(a, b) == Len(a) <= Len(b) /\ a = SubSeq(b, 1, Len(a))

\* C6: without a limit, a traversal of a chain of k pages yields the pages'
\* items in server order and nothing else, and ends, having yielded all of
\* them, after exactly k fetches.
C6_WholeChainInOrder ==
    (gen.state # "none" /\ IsNone(gen.limit)) =>
        /\ IsPrefix(yielded, Expected)
        /\ fetches <= Len(server.sizes)
        /\ gen.state = "done" =>
              /\ yielded = Expected
              /\ fetches = Len(server.sizes)

\* A two-page chain, the first page empty, traversed to the end.
C6_Witness ==
    /\ gen.state = "done"
    /\ IsNone(gen.limit)
    /\ server.sizes = <<0, 2>>
    /\ Len(yielded) = 2
    /\ fetches = 2

Min(a, b) == IF a < b THEN a ELSE b

\* C7: with a limit L the traversal never yields more than L items, and ends
\* having yielded min(L, items available).
C7_AtMostLimit ==
    (gen.state # "none" /\ ~IsNone(gen.limit)) =>
        /\ Len(yielded) <= Val(gen.limit)
        /\ gen.state = "done" =>
              Len(yielded) = Min(Val(gen.limit), Len(ItemsFrom(server, 1)))

CarriesToken(w) ==
    \/ ~IsNone(w.query) /\ "access_token" \in DOMAIN Val(w.query)
    \/ ~IsNone(w.body) /\ "access_token" \in DOMAIN Val(w.body)

\* C10: every request handed to the session carries an access_token
\* parameter: first requests, retries, uploads and continuation hops.
C10_TokenOnEveryRequest ==
    wire # NoWire => CarriesToken(wire)

\* A retry of a continuation hop was sent with the token.
C10_Witness ==
    /\ caller = "paginate"
    /\ pc = "handle"
    /\ req.retry_count = 1
    /\ "after" \in DOMAIN Val(wire.query)
    /\ Val(wire.query)["access_token"] = Scalar(cfg.access_token)

----------------------------------------------------------------------------
(* Properties of PaginatedResponse.from_dict (SpecParse) *)

\* "data" is missing or an array, "paging" is missing or an object.
WellShaped(body) ==
    /\ body.t = "dict"
    /\ body.data.j \in {"absent", "list"}
    /\ body.paging.j \in {"absent", "dict"}

\* The continuation reference of a body: its non-null paging.next.
Continuation(body) ==
    IF body.t = "dict" /\ body.paging.j = "dict"
       /\ body.paging.next.j \notin {"absent", "null"}
    THEN Some(body.paging.next) ELSE None

TwoItems == JList(<<Item(1, 1), Item(1, 2)>>)

\* C8: the page from_dict returns has has_next true exactly when the body has
\* a continuation reference, next_url equal to it, and the body's data array
\* in order, each element through item_factory when one is given; data of two
\* items with paging = {} gives has_next = false and the two items in order.
C8_PageMirrorsBody ==
    ~IsNone(parsed) =>
        LET page == Val(parsed)
            body == parseArgs.body
        IN  /\ WellShaped(body) => ~page.raised
            /\ ~page.raised =>
                 /\ page.has_next <=> ~IsNone(Continuation(body))
                 /\ page.next_url = Continuation(body)
                 /\ body.data.j = "absent" => page.data = JList(<<>>)
                 /\ body.data.j = "list" =>
                      /\ page.data.j = "list"
                      /\ Len(page.data.v) = Len(body.data.v)
                      /\ \A i \in 1..Len(body.data.v) :
                           page.data.v[i] =
                             IF parseArgs.item_factory
                             THEN [obj |-> body.data.v[i]]
                             ELSE body.data.v[i]
            /\ (body = Body(None, TwoItems, JPaging(JAbsent))
                  /\ ~parseArgs.item_factory)
               => page = Page(FALSE, TwoItems, None, FALSE)

\* Two items and paging = {} parsed.
C8_Witness ==
    /\ parseArgs = [body |-> Body(None, TwoItems, JPaging(JAbsent)),
                    item_factory |-> FALSE]
    /\ parsed = Some(Page(FALSE, TwoItems, None, FALSE))

\* C9: from_dict returns for every body, with an empty list for data that is
\* missing or not an array and no continuation for malformed paging.
C9_NeverRaises ==
    ~IsNone(parsed) =>
        LET page == Val(parsed)
            body == parseArgs.body
        IN  /\ ~page.raised
            /\ (body.t # "dict" \/ body.data.j # "list") => page.data = JList(<<>>)
            /\ (body.t # "dict" \/ body.paging.j # "dict") =>
                  IsNone(page.next_url) /\ ~page.has_next

----------------------------------------------------------------------------
(* Properties of request construction (SpecClassify) *)

\* The request on the wire was built by _request for the frame in req.
BuiltByRequest == pc = "handle" /\ wire.files = None

HasKey(o, k) == ~IsNone(o) /\ k \in DOMAIN Val(o)

\* C11: for GET, POST and DELETE alike, _request puts access_token into the
\* query string of the request, and for POST and DELETE not into the body.
C11_TokenInQuery ==
    BuiltByRequest =>
        /\ HasKey(wire.query, "access_token")
        /\ wire.method \in {"POST", "DELETE"} => ~HasKey(wire.body, "access_token")

\* The caller's parameters of the frame: everything but the token.
CallerParams == [k \in DOMAIN Val(req.params) \ {"access_token"} |-> Val(req.params)[k]]

\* d holds every key of want with want's value.
Holds(d, want) ==
    ~IsNone(d) /\ \A k \in DOMAIN want : k \in DOMAIN Val(d) /\ Val(d)[k] = want[k]

\* C12: GET sends every parameter in the query string and no body; POST sends
\* as its body the union of the query params and the body params, the body
\* param winning where both have the key; DELETE sends its parameters in the
\* query string.
C12_PlacementByVerb ==
    BuiltByRequest =>
        /\ wire.method = "GET" =>
              Holds(wire.query, CallerParams) /\ IsNone(wire.body)
        /\ wire.method = "POST" =>
              /\ Holds(wire.body, OrEmpty(req.data))
              /\ Holds(wire.body,
                       [k \in DOMAIN CallerParams \ DOMAIN OrEmpty(req.data) |->
                           CallerParams[k]])
              /\ DOMAIN Val(wire.body) \cup {"access_token"} =
                    DOMAIN CallerParams \cup DOMAIN OrEmpty(req.data)
                        \cup {"access_token"}
        /\ wire.method = "DELETE" => Holds(wire.query, CallerParams)

----------------------------------------------------------------------------
(* Properties of _upload_file (SpecClassify) *)

\* C13: an upload is never retried: it makes one HTTP request and never
\* sleeps, and when its response is a rate-limit envelope it fails with
\* RateLimitError after that one request, whatever retry_on_rate_limit and
\* max_retries are.
C13_UploadNotRetried ==
    caller = "upload" =>
        /\ attempts <= 1
        /\ sleeps = 0
        /\ (resp.kind = "json" /\ ~IsNone(resp.body.error)
              /\ SignalsRateLimit(Val(resp.body.error)) /\ pc # "handle")
           => (pc = "done" /\ outcome.status = "raised"
                 /\ outcome.kind = "RateLimit")

\* Exactly one of file_path and file_content was passed.
ExactlyOneSource == IsNone(upload.file_path) # IsNone(upload.file_content)

\* C14: an _upload_file call given neither or both of file_path and
\* file_content fails with a Generic ThreatExchangeError without sending any
\* HTTP request.
C14_ExactlyOneSource ==
    (caller = "upload" /\ upload.called /\ ~ExactlyOneSource) =>
        /\ attempts = 0
        /\ wire = NoWire
        /\ pc = "done"
        /\ outcome.status = "raised"
        /\ outcome.kind = "Generic"

----------------------------------------------------------------------------
(* Properties of retries inside a traversal (Spec) *)

\* C15: every logical call, each page fetch of a traversal included, starts
\* with retry_count = 0 and has the whole budget of max_retries retries: a
\* page fetch fails with RateLimitError only after max_retries retries of its
\* own, however many retries earlier pages used, and a traversal without a
\* limit that ends has yielded every item however often its fetches were
\* retried.
C15_FreshBudgetPerCall ==
    /\ (pc = "request" /\ attempts = 0) => req.retry_count = 0
    /\ pc \in {"request", "handle", "done"} =>
          /\ req.retry_count = sleeps
          /\ sleeps <= cfg.max_retries
    /\ (caller = "paginate" /\ pc = "done" /\ outcome.status = "raised"
          /\ outcome.kind = "RateLimit" /\ cfg.retry_on_rate_limit)
       => sleeps = cfg.max_retries
    /\ gen.state # "none" => totalSleeps <= fetches * cfg.max_retries
    /\ (gen.state = "done" /\ IsNone(gen.limit)) => yielded = Expected

\* Both page fetches of a two-page traversal used every retry they had, and
\* the traversal still yielded all four items.
C15_Witness ==
    /\ gen.state = "done"
    /\ IsNone(gen.limit)
    /\ cfg.max_retries >= 1
    /\ fetches = 2
    /\ totalSleeps = fetches * cfg.max_retries
    /\ Len(yielded) = 4
    /\ yielded = Expected

----------------------------------------------------------------------------
(* Properties of the wait before a retry (SpecClassify) *)

\* The request of the next attempt is being built.
Reinvoked == pc = "handle" /\ pc' = "request"

C16_Step ==
    /\ Reinvoked =>
          /\ sleeps' = sleeps + 1
          /\ slept' = HeaderSeconds(resp)
          /\ req'.retry_count = req.retry_count + 1
          /\ attempts' = attempts
    /\ sleeps' # sleeps => (Reinvoked \/ sleeps' = 0)
    /\ pc' \in {"request", "handle", "done"} => sleeps' = req'.retry_count

----------------------------------------------------------------------------
(* Properties of the generator and its consumer (Spec) *)

RECURSIVE Served(_, _)
\* How many items the first n pages of the chain hold.
Served(srv, n) == IF n = 0 THEN 0 ELSE Served(srv, n - 1) + srv.sizes[n]

C17_Step ==
    /\ fetches' # fetches =>
          /\ fetches' = fetches + 1
          /\ Len(yielded) = Served(server, fetches)
          /\ consumer.asked = Len(yielded) + 1
          /\ ~consumer.abandoned
    /\ fetches' >= 1 => Served(server, fetches' - 1) < consumer'.asked

\* C17: a page is fetched only while the consumer is waiting for an item that
\* the pages fetched so far do not hold: when the fetch of page N + 1 starts,
\* every item of pages 1..N has been yielded and the consumer has asked for
\* one more; no page is fetched beyond the one holding the item asked for.
C17_DemandDriven == [][C17_Step]_vars

\* The second page is being fetched for the consumer's third next().
C17_Witness ==
    /\ gen.state = "wait"
    /\ fetches = 2
    /\ server.sizes[1] = 2
    /\ Len(yielded) = 2
    /\ consumer.asked = 3

C18_Step ==
    consumer.abandoned =>
        /\ fetches' = fetches
        /\ attempts' = attempts
        /\ wire' = wire
        /\ yielded' = yielded

\* C18: once the consumer has abandoned a traversal, after any number of
\* items and with further pages still to come, the traversal makes no
\* further fetch and sends no further request.
C18_NoFetchAfterAbandon == [][C18_Step]_vars

\* Abandoned after the last item of the first page, with a second page to come.
C18_Witness ==
    /\ consumer.abandoned
    /\ gen.state = "closed"
    /\ gen.page.has_next
    /\ Len(yielded) = 2
    /\ gen.idx = 2
    /\ fetches = 1

----------------------------------------------------------------------------
(* Properties of failures that are not retried (SpecClassify) *)

\* The response being handled is a rate-limit envelope.
HandlingRateLimit ==
    /\ pc = "handle"
    /\ resp.kind = "json"
    /\ ~IsNone(resp.body.error)
    /\ SignalsRateLimit(Val(resp.body.error))

\* The call ends now, with a failure of the given kind and no wait.
FailsNow(kinds) ==
    /\ pc' = "done"
    /\ outcome'.status = "raised"
    /\ outcome'.kind \in kinds
    /\ sleeps' = sleeps

C19_Step ==
    /\ Reinvoked => HandlingRateLimit
    /\ (pc = "handle" /\ ~HandlingRateLimit) =>
          /\ pc' = "done"
          /\ sleeps' = sleeps
          /\ attempts' = attempts
          /\ resp.kind = "text" => FailsNow({"Generic"})
          /\ (resp.kind = "json" /\ ~IsNone(resp.body.error)) =>
                FailsNow({FirstMatch(Val(resp.body.error), resp.status_code)}
                           \ {"RateLimit"})
    /\ (attempts' # attempts /\ resp'.kind = "neterr") =>
          FailsNow({"Generic"}) /\ attempts' = attempts + 1
    /\ pc = "done" => attempts' = attempts /\ sleeps' = sleeps

\* C19: only a rate-limit envelope leads to a retry. An envelope of any other
\* kind, a body that is not JSON, or a transport failure, on a first attempt
\* or on a retry, ends the call (GET, POST, DELETE or upload) at once with
\* the typed failure of its kind: no sleep and no further attempt, also with
\* retries enabled.
C19_OnlyRateLimitRetried == [][C19_Step]_vars

----------------------------------------------------------------------------
(* Termination of a traversal (SpecTraverse) *)

\* The traversal is over: the generator returned or raised.
Ended == gen.state \in {"done", "raised"}

\* As many items as the supplied limit allows have been yielded.
LimitIsReached == ~IsNone(gen.limit) /\ Len(yielded) >= Val(gen.limit)

\* C20: a traversal that is consumed to the end ends whenever the service
\* ends the chain of pages, and whenever a supplied limit is reached, also of
\* a service that never ends the chain.
C20_Terminates ==
    (gen.state # "none" /\ (server.mode = "chain" \/ LimitIsReached)) ~> Ended

----------------------------------------------------------------------------
(* Properties of a retry that succeeds (Spec) *)

\* The success body the service has for the request on the wire.
SuccessBody ==
    IF wire.method = "GET" /\ wire.url.path = CollectionPath
    THEN PageBody(server, PageAsked(wire))
    ELSE ObjectBody

\* The call ended on a response without an error envelope.
AnsweredWithSuccess ==
    pc = "done" /\ resp.kind = "json" /\ IsNone(resp.body.error)

\* C21: a call answered k times with a rate-limit envelope (k <= max_retries,
\* retries enabled) and then with a success body returns exactly that body
\* after k + 1 attempts and k sleeps, and raises nothing.
C21_RetryInvisible ==
    AnsweredWithSuccess =>
        /\ outcome.status = "returned"
        /\ outcome.kind = ""
        /\ outcome.body = SuccessBody
        /\ attempts = sleeps + 1
        /\ sleeps <= cfg.max_retries
        /\ sleeps > 0 => cfg.retry_on_rate_limit

\* The default client was throttled three times and then got a page of two
\* items, which the call returned.
C21_Witness ==
    /\ AnsweredWithSuccess
    /\ cfg.max_retries = DefaultMaxRetries
    /\ caller = "paginate"
    /\ attempts = 4
    /\ sleeps = 3
    /\ outcome.status = "returned"
    /\ outcome.body.data.j = "list"
    /\ Len(outcome.body.data.v) = 2

----------------------------------------------------------------------------
(* Properties of bodies that are not JSON (SpecClassify) *)

\* The response just handled had a body that json() could not parse.
HandledText == pc = "done" /\ resp.kind = "text"

C26_Step ==
    /\ (pc = "handle" /\ resp.kind = "text") =>
          /\ pc' = "done"
          /\ sleeps' = sleeps
          /\ attempts' = attempts
    /\ (pc' = "done" /\ resp'.kind = "text") =>
          /\ outcome'.status = "raised"
          /\ outcome'.kind = "Generic"
          /\ resp'.status_code >= 400 =>
                /\ outcome'.code = Some(resp'.status_code)
                /\ \E i \in 1..Len(outcome'.message) :
                      outcome'.message[i] = resp'.body.raw
          /\ resp'.status_code < 400 =>
                /\ outcome'.code = None
                /\ outcome'.message = <<"Invalid JSON response from API">>

\* C26: a body that is not JSON ends the call with a Generic
\* ThreatExchangeError and no retry, whatever its text: with a status of 400
\* or more the failure has the status as its code and the raw text in its
\* message, below 400 it is the invalid-response failure without a code.
C26_UnparsableIsGeneric == [][C26_Step]_vars

\* A retry was answered 500 with the text "Rate limit exceeded": Generic with
\* code 500, no further attempt.
C26_Witness ==
    /\ HandledText
    /\ resp.status_code = 500
    /\ resp.body.raw = "Rate limit exceeded"
    /\ cfg.retry_on_rate_limit
    /\ attempts = 2
    /\ outcome.kind = "Generic"
    /\ outcome.code = Some(500)

----------------------------------------------------------------------------
(* Properties of the top-level error key (SpecBodies) *)

TypedKinds ==
    {"RateLimit", "Authentication", "NotFound", "Permission", "Validation",
     "Generic"}

C25_Step ==
    /\ (pc = "handle" /\ resp.kind = "json" /\ IsNone(resp.body.error)) =>
          /\ pc' = "done"
          /\ outcome'.status = "returned"
          /\ outcome'.body = resp.body
    /\ (pc = "handle" /\ resp.kind = "json" /\ ~IsNone(resp.body.error)) =>
          \/ Retried
          \/ /\ pc' = "done"
             /\ outcome'.status = "raised"
             /\ outcome'.kind \in TypedKinds
    /\ (pc = "handle" /\ outcome'.status = "returned") =>
          resp.kind = "json" /\ IsNone(resp.body.error)

\* C25: a response is returned, as parsed, exactly when its body is JSON
\* without a top-level error key, whatever the HTTP status; with an error key,
\* whatever its value and the status, the attempt ends in a typed failure or
\* in a rate-limit retry and never returns a body.
C25_ErrorKeyDecides == [][C25_Step]_vars

----------------------------------------------------------------------------
(* Properties of the token value on the wire (SpecClassify) *)

\* The access_token values of the request w, wherever they travel.
TokensOn(w) ==
    (IF HasKey(w.query, "access_token") THEN {Val(w.query)["access_token"]}
     ELSE {})
    \cup
    (IF HasKey(w.body, "access_token") THEN {Val(w.body)["access_token"]}
     ELSE {})

\* C28: the access_token sent on every request is the client's configured
\* token, also when the caller's params or body params, or a continuation URL,
\* hold an access_token of their own.
C28_ClientTokenOnly ==
    wire # NoWire => TokensOn(wire) = {Scalar(cfg.access_token)}

----------------------------------------------------------------------------
(* Properties of the request a retry sends (SpecClassify) *)

\* A retry attempt is being sent; wire still holds the previous attempt.
RetrySent == pc = "request" /\ attempts >= 1 /\ attempts' = attempts + 1

C29_Step ==
    RetrySent =>
        /\ wire'.method = wire.method
        /\ wire'.url = wire.url
        /\ wire'.query = wire.query
        /\ wire'.body = wire.body
        /\ wire'.files = wire.files
        /\ req'.retry_count = attempts

\* C29: every retry of a rate-limited call sends the request of the first
\* attempt again: same verb, same URL, same query and body parameters and,
\* for an upload, the same file part; only retry_count differs.
C29_RetryResendsRequest == [][C29_Step]_vars

----------------------------------------------------------------------------
(* Properties of a traversal whose fetch fails (Spec) *)

\* What the consumer has received once pages 1..n are consumed.
YieldedThrough(n) == SubSeq(Expected, 1, Served(server, n))

\* The _get for a page has ended in a typed failure inside the generator.
FetchFailed ==
    /\ gen.state = "wait"
    /\ pc = "done"
    /\ outcome.status = "raised"
    /\ outcome.kind \in TypedKinds

C30_Step ==
    /\ FetchFailed =>
          /\ gen'.state = "raised"
          /\ yielded' = yielded
          /\ yielded = YieldedThrough(fetches - 1)
          /\ consumer.asked = Len(yielded) + 1
    /\ gen.state = "raised" =>
          /\ fetches' = fetches
          /\ yielded' = yielded
          /\ gen'.state = "raised"

\* C30: when the fetch of page N ends in a typed failure, the failure
\* leaves the generator on the next() call that asked for the first item of
\* page N: the items of pages 1..N-1 have all been yielded, in order and
\* once each, and afterwards the traversal is over and fetches nothing.
C30_FailureReachesConsumer == [][C30_Step]_vars

\* The second page's fetch was throttled, retried and throttled again.
C30_Witness ==
    /\ gen.state = "raised"
    /\ outcome.kind = "RateLimit"
    /\ attempts = 2
    /\ fetches = 2
    /\ server.sizes = <<2, 1>>
    /\ Len(yielded) = 2

----------------------------------------------------------------------------
(* Properties of the client as a context manager (SpecContext) *)

\* C22: used as a context manager, the client closes its session when the
\* block ends, normally or with an exception; the exception leaves the with
\* statement, and inside the block the bound object is the client, its
\* access token as configured.
C22_ClosedOnExit ==
    /\ ctx.block = "exited" =>
          /\ ctx.session = "closed"
          /\ ctx.propagated = ctx.ended_with
    /\ ctx.block = "inside" =>
          /\ ctx.session = "open"
          /\ ctx.bound = Some(cfg)
          /\ Val(ctx.bound).access_token = ClientToken

\* The block ended with the AuthenticationError of the call it made.
C22_Witness ==
    /\ ctx.block = "exited"
    /\ ctx.session = "closed"
    /\ outcome.status = "raised"
    /\ ctx.propagated = Some("Authentication")

----------------------------------------------------------------------------
(* Properties of the requests of a traversal (SpecHops) *)

\* The values the parameter k has in the query string, in order.
ValuesIn(query, k) ==
    LET mine == SelectSeq(query, LAMBDA kv : kv[1] = k)
    IN  [i \in 1..Len(mine) |-> mine[i][2]]

\* The query string's parameters: a scalar for a parameter that occurs once,
\* the list of its values for one that occurs several times.
Reflattened(query) ==
    [k \in {query[i][1] : i \in 1..Len(query)} |->
        IF Len(ValuesIn(query, k)) = 1 THEN Scalar(ValuesIn(query, k)[1])
        ELSE [l |-> ValuesIn(query, k)]]

Without(d, k) == [x \in DOMAIN d \ {k} |-> d[x]]

\* The request on the wire is a continuation hop of the traversal.
HopSent ==
    /\ caller = "paginate"
    /\ gen.state = "wait"
    /\ wire # NoWire
    /\ Truthy(gen.next_url)

\* C23: on every continuation hop the parameters sent are the continuation
\* URL's query parameters re-flattened: a scalar for a parameter that
\* occurs once, all the values of one that occurs several times.
C23_HopParamsReflattened ==
    HopSent =>
        Without(Val(wire.query), "access_token")
            = Without(Reflattened(Val(gen.next_url).v.query), "access_token")

\* The generator starts running, or sends the _get for its next page.
Started == gen.state = "created" /\ gen'.state = "fetch"
Fetching == gen.state = "fetch" /\ gen'.state = "wait"

C24_Step ==
    /\ Started =>
          LET given == OrEmpty(gen.params)
              used == Val(gen'.params)
          IN  /\ gen'.endpoint = gen.endpoint
              /\ "limit" \in DOMAIN given => used = given
              /\ "limit" \notin DOMAIN given =>
                    /\ used["limit"] = Scalar(DEFAULT_LIMIT)
                    /\ Without(used, "limit") = given
    /\ (Fetching /\ fetches = 0) =>
          /\ req'.endpoint = gen.endpoint
          /\ req'.params = gen.params
    /\ (Fetching /\ fetches > 0) =>
          /\ gen.page.has_next
          /\ Val(gen.page.next_url).j = "url"
          /\ req'.endpoint = Endpoint(Val(gen.page.next_url).v.base,
                                      Val(gen.page.next_url).v.path)

\* C24: the first fetch of a traversal goes to the original endpoint with
\* the caller's params, plus limit = 500 exactly when they have no limit;
\* every later fetch goes to the scheme, host and path of the continuation
\* of the page just consumed, never to the original endpoint again.
C24_RequestSequence == [][C24_Step]_vars

----------------------------------------------------------------------------
(* Properties of interleaved traversals (SpecInterleave) *)

\* The traversal whose generator ran last.
Running == Traversal(gen, yielded, fetches, totalSleeps, consumer)

\* What a traversal run alone hands to its consumer.
ExpectedOf(g) ==
    LET raw == ItemsFrom(server, 1)
    IN  IF g.item_factory THEN [i \in 1..Len(raw) |-> [obj |-> raw[i]]]
        ELSE raw

\* The page that holds the n-th item of the chain.
PageOf(n) == CHOOSE p \in 1..Len(server.sizes) :
                 Served(server, p) >= n /\ Served(server, p - 1) < n

\* A limit of None or 0 does not end a traversal.
Unlimited(limit) == IsNone(limit) \/ Val(limit) = 0

\* Items yielded and fetches made by a traversal that runs alone to its end.
AloneCount(limit) ==
    IF Unlimited(limit) THEN Len(ItemsFrom(server, 1))
    ELSE Min(Val(limit), Len(ItemsFrom(server, 1)))
AloneFetches(limit) ==
    IF Unlimited(limit) \/ Val(limit) > Len(ItemsFrom(server, 1))
    THEN Len(server.sizes)
    ELSE PageOf(Val(limit))

\* The traversal t is where it would be had it run alone.
AsAlone(t) ==
    /\ IsPrefix(t.yielded, ExpectedOf(t.gen))
    /\ t.gen.state = "yield" =>
          /\ Len(t.yielded) = t.consumer.asked
          /\ t.gen.count = Len(t.yielded) - 1
          /\ t.fetches = PageOf(Len(t.yielded))
          /\ ~LimitReached(t.gen.limit, t.gen.count)
    /\ t.gen.state = "done" =>
          /\ t.yielded = SubSeq(ExpectedOf(t.gen), 1, AloneCount(t.gen.limit))
          /\ t.fetches = AloneFetches(t.gen.limit)
    /\ t.gen.state = "raised" =>
          /\ Len(t.yielded) = Served(server, t.fetches - 1)
          /\ Unlimited(t.gen.limit) \/ Len(t.yielded) < Val(t.gen.limit)

C27_Step ==
    /\ cfg' = cfg
    /\ AsAlone(Running)'
    /\ AsAlone(other)'
    /\ pc # "idle" => other' = other

\* C27: two traversals interleaved on one client do not affect each other:
\* each yields the items and makes the fetches it would make alone, with its
\* own continuation, count and limit, and the client's configuration is
\* never changed.
C27_TraversalsIndependent == [][C27_Step]_vars

\* Both traversals under way at once: one with a limit of 2 has yielded one
\* item, the other, without limit, is in the second page.
C27_Witness ==
    /\ server.sizes = <<1, 2>>
    /\ gen.state = "yield"
    /\ gen.limit = Some(2)
    /\ Len(yielded) = 1
    /\ other.gen.state = "yield"
    /\ IsNone(other.gen.limit)
    /\ Len(other.yielded) = 2
    /\ other.fetches = 2

====
